---- MODULE Spec2Model ----
(***************************************************************************)
(* LyricLens client: the SearchPage component, the Lyrics panel and the    *)
(* useLyricLens hook, with the requests they have in flight; and the       *)
(* analyze endpoint of the backend with its cache.                         *)
(***************************************************************************)
EXTENDS Integers, Sequences, FiniteSets, TLC

VARIABLES
    query,          \* SearchPage: useState<string>("")
    selectedSong,   \* SearchPage: useState<ISong | null>(null)
    pageHook,       \* the useLyricLens() instance of SearchPage
    panel,          \* the mounted Lyrics component (its hook instance and flags), or NoPanel
    net,            \* fetch() calls issued and not yet settled
    searchCalls,    \* number of searchSongs calls so far
    mounts,         \* one record per Lyrics mount (selection): the calls it made
    lastSearch,     \* the search call that settled last, with its response
    cache,          \* backend: analysis cache, keyed by <<track, artist>>
    posts,          \* backend: POST /api/song/analyze requests being handled
    backendLog      \* backend: completed analyze requests and cache expiries, in order

vars == <<query, selectedSong, pageHook, panel, net, searchCalls,
          mounts, lastSearch, cache, posts, backendLog>>

clientVars == <<query, selectedSong, pageHook, panel, net, searchCalls,
                mounts, lastSearch>>
backendVars == <<cache, posts, backendLog>>

----------------------------------------------------------------------------
(* Bounds of the model *)

\* searches and song selections a run may make
MaxOps == 3
MaxPosts == 2
\* longest list of suggestions a search of SpecSearch returns
MaxLen == 2

----------------------------------------------------------------------------
(* Values *)

\* JS null / undefined of a string-valued state
Null == "<null>"
NoSong == [none |-> TRUE]
NoAnalysis == [none |-> TRUE]
NoPanel == [mounted |-> FALSE]
NullBody == [isObject |-> FALSE]

\* JS truthiness of a string | null
Truthy(s) == s # Null /\ s # ""

\* String.prototype.trim on a query held as a sequence of characters
RECURSIVE TrimLeft(_)
TrimLeft(s) == IF s # <<>> /\ Head(s) = " " THEN TrimLeft(Tail(s)) ELSE s
RECURSIVE TrimRight(_)
TrimRight(s) ==
    IF s # <<>> /\ s[Len(s)] = " " THEN TrimRight(SubSeq(s, 1, Len(s) - 1)) ELSE s
Trim(s) == TrimRight(TrimLeft(s))

\* what the user may submit in the search box
Queries == {<<>>, <<" ">>, <<"a">>, <<"b", " ">>}

\* ISuggestionItem values the search endpoint may return
SuggA == [title |-> "Africa", artist |-> "Toto", album |-> "IV",
          preview_url |-> "p1", cover_url |-> "c1"]
SuggA2 == [title |-> "Africa", artist |-> "Toto", album |-> "Best Of",
           preview_url |-> Null, cover_url |-> "c2"]
SuggB == [title |-> "Bohemian Rhapsody", artist |-> "Queen", album |-> Null,
          preview_url |-> Null, cover_url |-> Null]

SuggestionLists == { <<>>, <<SuggA, SuggB>> }

\* every list of up to MaxLen suggestions
RECURSIVE ListsUpTo(_)
ListsUpTo(n) ==
    IF n = 0 THEN { <<>> }
    ELSE ListsUpTo(n - 1) \cup
         { Append(l, s) : l \in { x \in ListsUpTo(n - 1) : Len(x) = n - 1 },
                          s \in {SuggA, SuggA2, SuggB} }

\* a settled fetch(): the fetch promise rejected, or it resolved with a status
\* and a body whose json() promise rejects or resolves
FetchRejected ==
    [fetch |-> "rejected", ok |-> FALSE, statusText |-> "", json |-> "none",
     body |-> NullBody]
HttpError(text) ==
    [fetch |-> "resolved", ok |-> FALSE, statusText |-> text, json |-> "none",
     body |-> NullBody]
BadJson ==
    [fetch |-> "resolved", ok |-> TRUE, statusText |-> "OK", json |-> "rejected",
     body |-> NullBody]
Ok(body) ==
    [fetch |-> "resolved", ok |-> TRUE, statusText |-> "OK", json |-> "resolved",
     body |-> body]
NoResponse == [fetch |-> "pending"]

Failures == { FetchRejected, HttpError("Internal Server Error"), BadJson }

SearchBody(isArray, list, error) ==
    [isObject |-> TRUE, suggestionsIsArray |-> isArray, suggestions |-> list,
     error |-> error]
SearchResponses ==
    Failures
    \cup { Ok(NullBody),
           Ok(SearchBody(FALSE, <<>>, Null)),
           Ok(SearchBody(FALSE, <<>>, "Song service unavailable")) }
    \cup { Ok(SearchBody(TRUE, l, Null)) : l \in SuggestionLists }
ListResponses == { Ok(SearchBody(TRUE, l, Null)) : l \in ListsUpTo(MaxLen) }

\* the text the lyrics collaborator holds for a track
LyricsText(song) == "Lyrics of " \o song.title \o " by " \o song.artist
LyricsBody(text) == [isObject |-> TRUE, lyrics |-> text]
LyricsResponses(song) ==
    Failures
    \cup { Ok(NullBody), Ok(LyricsBody(Null)), Ok(LyricsBody("")),
           Ok(LyricsBody(LyricsText(song))) }

\* an ILyricsAnalysis the AI collaborator may produce for lyrics
AIVariants == {"v1", "v2"}
Analysis(lyrics, v) ==
    [isObject |-> TRUE, summary |-> <<"Summary", v, lyrics>>,
     countries_mentioned |-> IF v = "v1" THEN <<>> ELSE <<"Tanzania">>]
AnalyzeResponses(lyrics) ==
    Failures \cup { Ok(NullBody) } \cup { Ok(Analysis(lyrics, v)) : v \in AIVariants }

----------------------------------------------------------------------------
(* useLyricLens *)

\* the state a fresh hook instance starts with
NewHook ==
    [songs |-> <<>>, lyrics |-> Null, lyricsAnalysis |-> NoAnalysis,
     isLoading |-> FALSE, error |-> Null]

\* the head of every operation: setIsLoading(true); setError(null)
HookStart(h) == [h EXCEPT !.isLoading = TRUE, !.error = Null]

\* setIsLoading(false) on the success path only, instead of in finally
HookFinallySuccessOnly(h) ==
    IF h.error = Null THEN [h EXCEPT !.isLoading = FALSE] ELSE h

\* isLoading kept true while another request is still out
HookFinallyPending(h) == [h EXCEPT !.isLoading = Cardinality(net) > 1]

\* the finally block of every operation: setIsLoading(false)
HookFinally(h) == [h EXCEPT !.isLoading = FALSE]

NoThrow == [thrown |-> FALSE]
ErrorValue(msg) == [thrown |-> TRUE, isError |-> TRUE, message |-> msg]

\* err instanceof Error ? err.message : fallback
ErrMessage(err, fallback) == IF err.isError THEN err.message ELSE fallback

\* what the awaits of an operation throw: fetch rejecting, the !response.ok
\* check, response.json() rejecting
AwaitThrown(resp) ==
    IF resp.fetch = "rejected" THEN ErrorValue("Failed to fetch")
    ELSE IF ~resp.ok THEN ErrorValue("Error: " \o resp.statusText)
    ELSE IF resp.json = "rejected" THEN ErrorValue("Unexpected token in JSON")
    ELSE NoThrow

\* reading a property of a body that is null throws a TypeError
PropertyThrown(resp) ==
    IF ~resp.body.isObject THEN ErrorValue("Cannot read properties of null")
    ELSE NoThrow

\* a Song whose id is title + artist, without the "-"
ToSongNoDash(s) ==
    [id |-> s.title \o s.artist, title |-> s.title, artist |-> s.artist,
     coverUrl |-> s.cover_url]

\* the Song a suggestion maps to
ToSong(s) ==
    [id |-> s.title \o "-" \o s.artist, title |-> s.title, artist |-> s.artist,
     coverUrl |-> s.cover_url]

MapSongs(list) == [i \in 1..Len(list) |-> ToSong(list[i])]

\* searchSongs whose catch block only empties songs
SearchSettleSilent(h, resp) ==
    LET t1 == AwaitThrown(resp)
        t == IF t1.thrown THEN t1 ELSE PropertyThrown(resp)
        emptied == [h EXCEPT !.songs = <<>>, !.isLoading = FALSE]
    IN  IF t.thrown THEN emptied
        ELSE IF resp.body.suggestionsIsArray
             THEN [h EXCEPT !.songs = MapSongs(resp.body.suggestions),
                            !.isLoading = FALSE]
        ELSE IF Truthy(resp.body.error)
             THEN [emptied EXCEPT !.error = resp.body.error]
        ELSE emptied

\* searchSongs after its fetch settled with resp
SearchSettle(h, resp) ==
    LET t1 == AwaitThrown(resp)
        t == IF t1.thrown THEN t1 ELSE PropertyThrown(resp)
        caught == [h EXCEPT
                     !.error = ErrMessage(t, "An error occurred while searching for songs"),
                     !.songs = <<>>]
        emptied == [h EXCEPT !.songs = <<>>]
    IN  HookFinally(
          IF t.thrown THEN caught
          ELSE IF resp.body.suggestionsIsArray
               THEN [h EXCEPT !.songs = MapSongs(resp.body.suggestions)]
          ELSE IF Truthy(resp.body.error)
               THEN [emptied EXCEPT !.error = resp.body.error]
          ELSE emptied)

\* getLyrics whose catch block does not call setError
LyricsSettleSilent(h, resp) ==
    LET t1 == AwaitThrown(resp)
        t == IF t1.thrown THEN t1 ELSE PropertyThrown(resp)
    IN  [h EXCEPT !.isLoading = FALSE,
                  !.lyrics = IF t.thrown THEN @ ELSE resp.body.lyrics]

\* getLyrics after its fetch settled with resp
LyricsSettle(h, resp) ==
    LET t1 == AwaitThrown(resp)
        t == IF t1.thrown THEN t1 ELSE PropertyThrown(resp)
    IN  HookFinally(
          IF t.thrown
          THEN [h EXCEPT !.error = ErrMessage(t, "An error occurred while fetching lyrics")]
          ELSE [h EXCEPT !.lyrics = resp.body.lyrics])

\* analyzeLyrics after its fetch settled with resp
AnalyzeSettle(h, resp) ==
    LET t == AwaitThrown(resp)
    IN  HookFinally(
          IF t.thrown
          THEN [h EXCEPT !.error = ErrMessage(t, "An error occurred while analyzing lyrics")]
          ELSE [h EXCEPT !.lyricsAnalysis =
                           IF resp.body.isObject THEN resp.body ELSE NoAnalysis])

----------------------------------------------------------------------------
(* Rendering: what SearchPage, SearchStatus, SongGrid and Lyrics show *)

\* SearchPage: the results heading ("" when it is not rendered)
Heading ==
    IF query # <<>> /\ ~pageHook.isLoading /\ ~Truthy(pageHook.error)
       /\ selectedSong = NoSong
    THEN [shown |-> TRUE,
          text |-> IF Len(pageHook.songs) > 0 THEN "Results for"
                   ELSE "No results found for",
          query |-> query]
    ELSE [shown |-> FALSE]

\* SearchPage: which of the two children is rendered
GridRendered == selectedSong = NoSong
PanelRendered == selectedSong # NoSong

\* SongGrid: skeleton while loading, the empty message, or one card per song
GridView ==
    IF ~GridRendered THEN "none"
    ELSE IF pageHook.isLoading THEN "skeleton"
    ELSE IF Len(pageHook.songs) = 0 THEN "emptyMessage"
    ELSE "cards"

\* the song cards on screen
SongCards == IF GridView = "cards" THEN pageHook.songs ELSE <<>>

\* SearchStatus: the error line
StatusError == IF Truthy(pageHook.error) THEN pageHook.error ELSE Null

\* SearchStatus: the "Searching..." line
StatusSearching == pageHook.isLoading

\* SongCard.handleClick: the ISong handed to onClick
CardSong(card) ==
    [id |-> card.id, title |-> card.title, artist |-> card.artist,
     coverUrl |-> card.coverUrl]

\* Lyrics: the error box
PanelError ==
    IF panel.mounted /\ Truthy(panel.hook.error) THEN panel.hook.error ELSE Null

----------------------------------------------------------------------------
(* Requests *)

\* a fetch() in flight: the operation that made it, the hook instance it
\* belongs to, and what it asks for (n numbers the searches of the page)
Request(op, owner, n, q, song, lyrics) ==
    [op |-> op, owner |-> owner, n |-> n, query |-> q, song |-> song,
     lyrics |-> lyrics]

InFlight(op) == { r \in net : r.op = op }

\* the page's hook instance is owner 0; a Lyrics mount is owner 1, 2, ...
PageOwner == 0

\* one hook state shared by every Lyrics mount
ReachesAnyMount(r) ==
    IF r.owner = PageOwner THEN TRUE ELSE panel.mounted

\* whether the state setters a request's continuation calls still reach a
\* mounted component: the page never unmounts, a Lyrics instance is gone once
\* selectedSong was reset, and a later mount is another instance
Reaches(r) ==
    IF r.owner = PageOwner THEN TRUE
    ELSE panel.mounted /\ panel.inst = r.owner

\* searches and song selections made so far
Ops == searchCalls + Len(mounts)

\* the later panel instance on screen when a request settles (0: none)
OtherOnScreen(r) ==
    IF panel.mounted /\ panel.inst # r.owner THEN panel.inst ELSE 0

\* the record of a Lyrics mount: its song, the searches made before it, the
\* getLyrics and analyzeLyrics calls
\* it made, the response of getLyrics and the later instance on screen when it
\* settled, and the analyze response its panel received
NewMount(song) ==
    [song |-> song, after |-> searchCalls, shown |-> SongCards,
     seen |-> lastSearch.n, lyricsCalls |-> 0,
     lyricsResp |-> NoResponse, lyricsUnder |-> 0, analyzeCalls |-> <<>>,
     analyzeResp |-> NoResponse]

Init ==
    /\ query = <<>>
    /\ selectedSong = NoSong
    /\ pageHook = NewHook
    /\ panel = NoPanel
    /\ net = {}
    /\ searchCalls = 0
    /\ mounts = <<>>
    /\ lastSearch = [n |-> 0, query |-> <<>>, resp |-> NoResponse]
    /\ cache = [k \in {} |-> NoAnalysis]
    /\ posts = {}
    /\ backendLog = <<>>

----------------------------------------------------------------------------
(* SearchPage *)

\* the blank check left out of handleSearch
BlankNever(q) == FALSE

\* if (!searchQuery.trim())
Blank(q) == Trim(q) = <<>>

\* handleSearch with a query that trims to nothing: only setQuery
HandleSearchBlank(q) ==
    /\ Blank(q)
    /\ query' = q
    /\ UNCHANGED <<selectedSong, pageHook, panel, net, searchCalls, mounts,
                   lastSearch>>
    /\ UNCHANGED backendVars

\* handleSearch otherwise: setQuery, setSelectedSong(null) (the Lyrics panel
\* unmounts), searchSongs up to its fetch
HandleSearch(q) ==
    /\ ~Blank(q)
    /\ Ops < MaxOps
    /\ query' = q
    /\ selectedSong' = NoSong
    /\ panel' = NoPanel
    /\ pageHook' = HookStart(pageHook)
    /\ net' = net \cup
         {Request("search", PageOwner, searchCalls + 1, q, NoSong, Null)}
    /\ searchCalls' = searchCalls + 1
    /\ UNCHANGED <<mounts, lastSearch>>
    /\ UNCHANGED backendVars

\* a search fetch settles: the rest of searchSongs
SearchResolve(r, resp) ==
    /\ r \in net /\ r.op = "search"
    /\ pageHook' = SearchSettle(pageHook, resp)
    /\ lastSearch' = [n |-> r.n, query |-> r.query, resp |-> resp]
    /\ net' = net \ {r}
    /\ UNCHANGED <<query, selectedSong, panel, searchCalls, mounts>>
    /\ UNCHANGED backendVars

\* a click on a song card: handleSongClick, the Lyrics panel mounts and its
\* effects run: fetchLyrics (getLyrics up to its fetch), fetchAnalysis (lyrics
\* is null: nothing)
HandleSongClick(i) ==
    /\ i \in 1..Len(SongCards)
    /\ Ops < MaxOps
    /\ LET song == CardSong(SongCards[i])
           inst == Len(mounts) + 1
       IN  /\ selectedSong' = song
           /\ panel' = [mounted |-> TRUE, inst |-> inst, song |-> song,
                        hook |-> HookStart(NewHook),
                        isLyricsLoading |-> TRUE, isAnalysisLoading |-> FALSE,
                        lyricsDep |-> Null]
           /\ net' = net \cup {Request("lyrics", inst, 0, <<>>, song, Null)}
           /\ mounts' = Append(mounts, [NewMount(song) EXCEPT !.lyricsCalls = 1])
    /\ UNCHANGED <<query, pageHook, searchCalls, lastSearch>>
    /\ UNCHANGED backendVars

\* the back arrow of the Lyrics panel: onBack
Back ==
    /\ PanelRendered
    /\ selectedSong' = NoSong
    /\ panel' = NoPanel
    /\ UNCHANGED <<query, pageHook, net, searchCalls, mounts, lastSearch>>
    /\ UNCHANGED backendVars

----------------------------------------------------------------------------
(* Lyrics *)

\* a lyrics fetch settling in one hook state shared by page and panel
LyricsResolveShared(r, resp) ==
    /\ r \in net /\ r.op = "lyrics"
    /\ panel' = IF Reaches(r)
                THEN [panel EXCEPT !.hook = LyricsSettle(panel.hook, resp),
                                   !.isLyricsLoading = FALSE]
                ELSE panel
    /\ pageHook' = LyricsSettle(pageHook, resp)
    /\ mounts' = [mounts EXCEPT ![r.owner].lyricsResp = resp,
                                ![r.owner].lyricsUnder = OtherOnScreen(r)]
    /\ net' = net \ {r}
    /\ UNCHANGED <<query, selectedSong, searchCalls, lastSearch>>
    /\ UNCHANGED backendVars

\* a lyrics fetch settles: the rest of getLyrics, then of fetchLyrics
LyricsResolve(r, resp) ==
    /\ r \in net /\ r.op = "lyrics"
    /\ panel' = IF Reaches(r)
                THEN [panel EXCEPT !.hook = LyricsSettle(panel.hook, resp),
                                   !.isLyricsLoading = FALSE]
                ELSE panel
    /\ mounts' = [mounts EXCEPT ![r.owner].lyricsResp = resp,
                                ![r.owner].lyricsUnder = OtherOnScreen(r)]
    /\ net' = net \ {r}
    /\ UNCHANGED <<query, selectedSong, pageHook, searchCalls, lastSearch>>
    /\ UNCHANGED backendVars

\* fetchAnalysis guarded by lyrics !== null instead of if (lyrics)
AnalysisWantedNonNull(lyrics) == lyrics # Null

\* whether fetchAnalysis runs with this lyrics value: if (lyrics)
AnalysisWanted(lyrics) == Truthy(lyrics)

\* the [lyrics] effect after a render in which lyrics changed: fetchAnalysis
\* (analyzeLyrics up to its fetch)
AnalysisEffect ==
    /\ panel.mounted
    /\ panel.hook.lyrics # panel.lyricsDep
    /\ LET lyrics == panel.hook.lyrics
           call == [song |-> panel.song, lyrics |-> lyrics,
                    lyricsSettled |->
                        mounts[panel.inst].lyricsResp # NoResponse]
       IN  IF AnalysisWanted(lyrics)
           THEN /\ panel' = [panel EXCEPT !.lyricsDep = lyrics,
                                          !.isAnalysisLoading = TRUE,
                                          !.hook = HookStart(panel.hook)]
                /\ net' = net \cup
                     {Request("analyze", panel.inst, 0, <<>>, panel.song, lyrics)}
                /\ mounts' = [mounts EXCEPT ![panel.inst].analyzeCalls =
                                                Append(@, call)]
           ELSE /\ panel' = [panel EXCEPT !.lyricsDep = lyrics]
                /\ UNCHANGED <<net, mounts>>
    /\ UNCHANGED <<query, selectedSong, pageHook, searchCalls, lastSearch>>
    /\ UNCHANGED backendVars

\* an analyze fetch settles: the rest of analyzeLyrics, then of fetchAnalysis
AnalyzeResolve(r, resp) ==
    /\ r \in net /\ r.op = "analyze"
    /\ panel' = IF Reaches(r)
                THEN [panel EXCEPT !.hook = AnalyzeSettle(panel.hook, resp),
                                   !.isAnalysisLoading = FALSE]
                ELSE panel
    /\ mounts' = IF Reaches(r)
                 THEN [mounts EXCEPT ![r.owner].analyzeResp = resp]
                 ELSE mounts
    /\ net' = net \ {r}
    /\ UNCHANGED <<query, selectedSong, pageHook, searchCalls, lastSearch>>
    /\ UNCHANGED backendVars

----------------------------------------------------------------------------
(* Backend: POST /api/song/analyze and its cache *)

\* the JSON body analyzeLyrics posts
AnalyzeBody(song, lyrics) ==
    [track_name |-> song.title, artist_name |-> song.artist, lyrics |-> lyrics]

\* the bodies a run posts to the endpoint
PostBodies ==
    { AnalyzeBody(ToSong(s), l) :
        s \in {SuggA, SuggB}, l \in {"la la la", "na na na"} }

\* the cache key of a request: track and artist
CacheKey(body) == <<body.track_name, body.artist_name>>

\* a lookup that never finds the entry
CacheGetMiss(key) == NoAnalysis

\* the cached analysis of a key, or NoAnalysis
CacheGet(key) == IF key \in DOMAIN cache THEN cache[key] ELSE NoAnalysis

CachePut(key, value) ==
    [k \in DOMAIN cache \cup {key} |-> IF k = key THEN value ELSE cache[k]]

AnalyzeEvents == { i \in 1..Len(backendLog) : backendLog[i].ev = "analyze" }

\* requests received so far
PostsSoFar == Cardinality(posts) + Cardinality(AnalyzeEvents)

\* a request arrives
Post(body) ==
    /\ PostsSoFar < MaxPosts
    /\ posts' = posts \cup
         {[id |-> PostsSoFar + 1, body |-> body, pc |-> "received",
           arrived |-> Len(backendLog)]}
    /\ UNCHANGED <<cache, backendLog>>
    /\ UNCHANGED clientVars

Completed(p, hit, ai, ok, result) ==
    [ev |-> "analyze", id |-> p.id, key |-> CacheKey(p.body),
     lyrics |-> p.body.lyrics, arrived |-> p.arrived, hit |-> hit, ai |-> ai,
     ok |-> ok, result |-> result]

\* the handler consults the cache: a hit is returned, a miss calls the AI
\* collaborator
CacheLookup(p) ==
    /\ p \in posts /\ p.pc = "received"
    /\ LET cached == CacheGet(CacheKey(p.body))
       IN  IF cached # NoAnalysis
           THEN /\ posts' = posts \ {p}
                /\ backendLog' =
                     Append(backendLog, Completed(p, TRUE, FALSE, TRUE, cached))
           ELSE /\ posts' = (posts \ {p}) \cup {[p EXCEPT !.pc = "ai"]}
                /\ UNCHANGED backendLog
    /\ UNCHANGED cache
    /\ UNCHANGED clientVars

\* the AI collaborator answers: the result is stored and returned
AIReturn(p, v) ==
    /\ p \in posts /\ p.pc = "ai"
    /\ LET result == Analysis(p.body.lyrics, v)
       IN  /\ cache' = CachePut(CacheKey(p.body), result)
           /\ backendLog' =
                Append(backendLog, Completed(p, FALSE, TRUE, TRUE, result))
    /\ posts' = posts \ {p}
    /\ UNCHANGED clientVars

\* the AI collaborator fails: an error is returned, nothing is stored
AIFail(p) ==
    /\ p \in posts /\ p.pc = "ai"
    /\ backendLog' =
         Append(backendLog, Completed(p, FALSE, TRUE, FALSE, NoAnalysis))
    /\ posts' = posts \ {p}
    /\ UNCHANGED cache
    /\ UNCHANGED clientVars

\* the TTL of a cache entry runs out
Expire(key) ==
    /\ key \in DOMAIN cache
    /\ cache' = [k \in DOMAIN cache \ {key} |-> cache[k]]
    /\ backendLog' = Append(backendLog, [ev |-> "expire", key |-> key])
    /\ UNCHANGED posts
    /\ UNCHANGED clientVars

NextBackend ==
    \/ \E body \in PostBodies : Post(body)
    \/ \E p \in posts : CacheLookup(p)
    \/ \E p \in posts : \E v \in AIVariants : AIReturn(p, v)
    \/ \E p \in posts : AIFail(p)
    \/ \E key \in DOMAIN cache : Expire(key)

SpecBackend == Init /\ [][NextBackend]_vars

----------------------------------------------------------------------------

Next ==
    \/ \E q \in Queries : HandleSearchBlank(q)
    \/ \E q \in Queries : HandleSearch(q)
    \/ \E r \in InFlight("search") : \E resp \in SearchResponses : SearchResolve(r, resp)
    \/ \E i \in 1..2 : HandleSongClick(i)
    \/ Back
    \/ \E r \in InFlight("lyrics") : \E resp \in LyricsResponses(r.song) : LyricsResolve(r, resp)
    \/ AnalysisEffect
    \/ \E r \in InFlight("analyze") : \E resp \in AnalyzeResponses(r.lyrics) : AnalyzeResolve(r, resp)

Spec == Init /\ [][Next]_vars

\* the search box alone, with every list of suggestions as a response
NextSearch ==
    \/ \E q \in Queries : HandleSearchBlank(q)
    \/ \E q \in Queries : HandleSearch(q)
    \/ \E r \in InFlight("search") : \E resp \in ListResponses \cup Failures :
          SearchResolve(r, resp)

SpecSearch == Init /\ [][NextSearch]_vars

----------------------------------------------------------------------------
(* Claims *)

Mounts == 1..Len(mounts)

\* the lyrics string a settled lyrics response carries (Null when it failed
\* or carries none)
ResolvedLyrics(resp) ==
    IF resp # NoResponse /\ resp.fetch = "resolved" /\ resp.ok
       /\ resp.json = "resolved" /\ resp.body.isObject
    THEN resp.body.lyrics
    ELSE Null

\* the [lyrics] effect of the mounted panel has yet to run
EffectPending(i) ==
    panel.mounted /\ panel.inst = i /\ panel.hook.lyrics # panel.lyricsDep

LyricsRequests(i) == { r \in net : r.op = "lyrics" /\ r.owner = i }

\* C1 as stated: every selection makes exactly one lyrics request, and once
\* that request has resolved with non-null lyrics (and the panel's effects
\* have run) exactly one analyze request for that song and those lyrics, made
\* after the lyrics resolved, has followed.
C1_ExactlyOneAnalyzeIfNonNull ==
    \A i \in Mounts :
      LET m == mounts[i]
          text == ResolvedLyrics(m.lyricsResp)
      IN  /\ m.lyricsCalls = 1
          /\ (text # Null /\ ~EffectPending(i)) =>
                /\ Len(m.analyzeCalls) = 1
                /\ m.analyzeCalls[1] =
                     [song |-> m.song, lyrics |-> text, lyricsSettled |-> TRUE]

\* C1 amended: every selection makes exactly one lyrics request and at most
\* one analyze request; an analyze request is made only after the lyrics
\* request resolved with a non-empty string, for that song and those lyrics;
\* and it is made whenever the lyrics resolved non-empty and the panel of the
\* selection is still mounted once its effect has run.
C1_OneLyricsAtMostOneAnalyze ==
    \A i \in Mounts :
      LET m == mounts[i]
          text == ResolvedLyrics(m.lyricsResp)
      IN  /\ m.lyricsCalls = 1
          /\ m.lyricsResp = NoResponse <=> LyricsRequests(i) # {}
          /\ Len(m.analyzeCalls) <= 1
          /\ \A k \in 1..Len(m.analyzeCalls) :
                /\ Truthy(text)
                /\ m.analyzeCalls[k] =
                     [song |-> m.song, lyrics |-> text, lyricsSettled |-> TRUE]
          /\ (Truthy(text) /\ panel.mounted /\ panel.inst = i /\ ~EffectPending(i))
                => Len(m.analyzeCalls) = 1
          /\ (text = "" /\ ~EffectPending(i)) => Len(m.analyzeCalls) = 0

\* a selection whose lyrics resolved non-empty made its one analyze request,
\* and the panel is still on screen
C1_Witness ==
    \E i \in Mounts :
      /\ panel.mounted /\ panel.inst = i
      /\ Truthy(ResolvedLyrics(mounts[i].lyricsResp))
      /\ Len(mounts[i].analyzeCalls) = 1

\* C2: when the lyrics fetch of a selection fails (fetch rejected, non-2xx
\* status, unparseable body), no analyze request is ever made for that
\* selection, and the panel of that selection shows a non-null error and keeps
\* lyrics null.
C2_FailedLyricsNoAnalyze ==
    \A i \in Mounts :
      mounts[i].lyricsResp \in Failures =>
        /\ mounts[i].analyzeCalls = <<>>
        /\ { r \in net : r.op = "analyze" /\ r.owner = i } = {}
        /\ (panel.mounted /\ panel.inst = i) =>
              /\ Truthy(panel.hook.error)
              /\ PanelError = panel.hook.error
              /\ panel.hook.lyrics = Null

\* the lyrics fetch of the panel on screen failed with a non-2xx status
C2_Witness ==
    /\ panel.mounted
    /\ mounts[panel.inst].lyricsResp = HttpError("Internal Server Error")
    /\ panel.hook.error = "Error: Internal Server Error"

\* what a search call leaves in songs and error when nothing else is running
SearchOutcome(resp) == SearchSettle(HookStart(NewHook), resp)

\* C3: once all of two or more search calls have resolved, songs and error
\* are the outcome of the call whose response resolved last.
C3_LastResponseWins ==
    (searchCalls >= 2 /\ InFlight("search") = {}) =>
      /\ pageHook.songs = SearchOutcome(lastSearch.resp).songs
      /\ pageHook.error = SearchOutcome(lastSearch.resp).error

\* the hook instance a request belongs to, in the state after a step
HookAfter(r) == IF r.owner = PageOwner THEN pageHook' ELSE panel'.hook

HookBefore(r) == IF r.owner = PageOwner THEN pageHook ELSE panel.hook

\* C4: a call sets isLoading true and error null before its request is out,
\* and the end of a call, on every path, sets isLoading false.
C4_LoadingDiscipline ==
    [][ /\ \A r \in net' \ net :
              HookAfter(r).isLoading /\ HookAfter(r).error = Null
        /\ \A r \in net \ net' :
              Reaches(r) => ~HookAfter(r).isLoading ]_vars

\* a search started after an earlier one had failed: its error is gone
C4_Witness ==
    /\ lastSearch.resp \in Failures
    /\ InFlight("search") # {}
    /\ pageHook.isLoading
    /\ pageHook.error = Null

\* a search response that is a success with an empty list of suggestions
NoResults(resp) ==
    /\ resp # NoResponse /\ resp.fetch = "resolved" /\ resp.ok
    /\ resp.json = "resolved" /\ resp.body.isObject
    /\ resp.body.suggestionsIsArray /\ resp.body.suggestions = <<>>

\* C5: when a search completes with no results, the page shows the heading
\* "No results found" for the query searched and no song card.
C5_NoResultsHeading ==
    [][ (lastSearch' # lastSearch /\ NoResults(lastSearch'.resp)) =>
          /\ Heading' = [shown |-> TRUE, text |-> "No results found for",
                         query |-> lastSearch'.query]
          /\ SongCards' = <<>> ]_vars

\* a search response that is a success with a list of suggestions
HasList(resp) ==
    /\ resp # NoResponse /\ resp.fetch = "resolved" /\ resp.ok
    /\ resp.json = "resolved" /\ resp.body.isObject
    /\ resp.body.suggestionsIsArray

ViewState == IF selectedSong = NoSong THEN "browsing" ELSE "viewingSong"

\* a step that is a song selection: a displayed card becomes the selected
\* song and its lyrics are requested
SelectionStep ==
    /\ ViewState = "browsing" /\ ViewState' = "viewingSong"
    /\ \E i \in 1..Len(SongCards) : selectedSong' = CardSong(SongCards[i])
    /\ UNCHANGED <<query, pageHook>>

\* a step that is the back action: nothing but the selection changes
BackStep ==
    /\ ViewState = "viewingSong" /\ ViewState' = "browsing"
    /\ UNCHANGED <<query, pageHook, net>>

\* a step that submits a search for a query that is not blank
SearchStep ==
    /\ ViewState' = "browsing"
    /\ \E r \in net' \ net :
         /\ r.op = "search" /\ r.owner = PageOwner
         /\ Trim(r.query) # <<>> /\ query' = r.query

\* the panel is mounted, for the selected song, exactly when a song is selected
ViewInvariant ==
    /\ ViewState \in {"browsing", "viewingSong"}
    /\ GridRendered <=> ViewState = "browsing"
    /\ PanelRendered <=> ViewState = "viewingSong"
    /\ panel.mounted <=> PanelRendered
    /\ panel.mounted => panel.song = selectedSong

\* C7 as stated: the view state changes only by a song selection or the back
\* action.
C7_OnlySelectAndBack ==
    [][ ViewState' # ViewState => (SelectionStep \/ BackStep) ]_vars

\* C7 amended: the page is always in exactly one of browsing and viewingSong,
\* and the view state changes only by a song selection, the back action, or
\* the submission of a non-blank search (which returns to browsing).
C7_SelectBackOrSearch ==
    /\ []ViewInvariant
    /\ [][ ViewState' # ViewState => (SelectionStep \/ BackStep \/ SearchStep) ]_vars

\* a song was selected and the page is browsing again, with a search
\* submitted after the selection in flight
C7_Witness ==
    /\ ViewState = "browsing"
    /\ Len(mounts) = 1
    /\ mounts[1].after = 1
    /\ \E r \in InFlight("search") : r.n = 2

\* the response a step has just settled for a request, from the records kept
Settled(r) ==
    IF r.op = "search" THEN lastSearch'.resp
    ELSE IF r.op = "lyrics" THEN mounts'[r.owner].lyricsResp
    ELSE mounts'[r.owner].analyzeResp

\* the error line the UI shows for the hook of a request, after a step
ShownAfter(r) == IF r.owner = PageOwner THEN StatusError' ELSE PanelError'

\* a parseable body that is not of the shape the operation expects
UnexpectedShape(r, resp) ==
    /\ resp.fetch = "resolved" /\ resp.ok /\ resp.json = "resolved"
    /\ \/ ~resp.body.isObject
       \/ r.op = "search" /\ ~resp.body.suggestionsIsArray
       \/ r.op = "lyrics" /\ resp.body.lyrics = Null

\* C8 as stated: whenever a request of any of the three operations settles
\* with a fetch rejection, a non-2xx status, an unparseable body or a body of
\* unexpected shape, error is left a non-null string and the UI shows it.
C8_EveryFailureKindSetsError ==
    [][ \A r \in net \ net' :
          (Reaches(r) /\ (Settled(r) \in Failures \/ UnexpectedShape(r, Settled(r))))
            => (Truthy(HookAfter(r).error) /\ ShownAfter(r) = HookAfter(r).error) ]_vars

\* the bodies of unexpected shape that do leave an error: a null body read by
\* searchSongs or getLyrics (the property read throws), and a search body
\* without a list that carries an error field
ReportedShape(r, resp) ==
    /\ UnexpectedShape(r, resp)
    /\ \/ r.op \in {"search", "lyrics"} /\ ~resp.body.isObject
       \/ r.op = "search" /\ resp.body.isObject /\ Truthy(resp.body.error)

\* C8 amended: for each of the three operations a fetch rejection, a non-2xx
\* status and an unparseable body leave error a non-null string that the UI
\* shows; a parseable body of unexpected shape does so only when reading it
\* throws (a null body in searchSongs and getLyrics) or when a search body
\* carries an error field, and otherwise leaves error as it was (null, unless
\* an overlapping call has set it).
C8_TransportFailuresSetError ==
    [][ \A r \in net \ net' :
          Reaches(r) =>
            /\ (Settled(r) \in Failures \/ ReportedShape(r, Settled(r)))
                 => (Truthy(HookAfter(r).error)
                     /\ ShownAfter(r) = HookAfter(r).error)
            /\ (UnexpectedShape(r, Settled(r)) /\ ~ReportedShape(r, Settled(r)))
                 => HookAfter(r).error = HookBefore(r).error ]_vars

\* each operation has left its own error on screen, and a search body of
\* unexpected shape was taken for an empty result
C8_Witness ==
    /\ panel.mounted
    /\ mounts[panel.inst].analyzeResp = BadJson
    /\ PanelError = "Unexpected token in JSON"
    /\ lastSearch.resp = FetchRejected
    /\ StatusError = "Failed to fetch"

\* two analyze requests for the same track, artist and lyrics, the second
\* received after the first completed, with no expiry of the key and no other
\* request for the key completing in between
Consecutive(i, j) ==
    /\ i \in AnalyzeEvents /\ j \in AnalyzeEvents /\ i < j
    /\ backendLog[i].key = backendLog[j].key
    /\ backendLog[i].lyrics = backendLog[j].lyrics
    /\ backendLog[j].arrived >= i
    /\ \A k \in (i + 1)..(j - 1) : backendLog[k].key # backendLog[i].key

BelongsTo(song, lyrics) == lyrics \in {Null, "", LyricsText(song)}
AnalysisBelongsTo(song, analysis) ==
    analysis \in {NoAnalysis} \cup { Analysis(LyricsText(song), v) : v \in AIVariants }

\* a step in which a request of a Lyrics mount that is no longer on screen
\* settles
StaleSettles ==
    \E r \in net \ net' : r.owner # PageOwner /\ ~Reaches(r)

\* C10: the panel is a fresh instance for every selection, what it shows
\* belongs to the selected song, every analyze request pairs a song with that
\* song's lyrics, and a response for an earlier selection changes nothing in
\* the panel on screen and starts no request.
C10_PanelShowsSelectedSong ==
    /\ [](panel.mounted =>
            /\ panel.song = selectedSong
            /\ BelongsTo(selectedSong, panel.hook.lyrics)
            /\ AnalysisBelongsTo(selectedSong, panel.hook.lyricsAnalysis)
            /\ mounts[panel.inst].lyricsResp = NoResponse =>
                  (panel.hook.lyrics = Null /\ panel.hook.lyricsAnalysis = NoAnalysis
                   /\ panel.hook.error = Null))
    /\ [](\A r \in InFlight("analyze") :
            r.song = mounts[r.owner].song /\ r.lyrics = LyricsText(r.song))
    /\ [](\A i \in Mounts : \A k \in 1..Len(mounts[i].analyzeCalls) :
            mounts[i].analyzeCalls[k].lyrics = LyricsText(mounts[i].song))
    /\ [][ StaleSettles => (panel' = panel /\ net' \subseteq net) ]_vars

\* the lyrics of the first selection arrived while the panel of a second
\* selection, of another song, was on screen
C10_Witness ==
    /\ Len(mounts) = 2
    /\ panel.mounted /\ panel.inst = 2
    /\ mounts[1].song.title # mounts[2].song.title
    /\ mounts[1].lyricsUnder = 2
    /\ Truthy(ResolvedLyrics(mounts[1].lyricsResp))

\* C11: isLoading does not count requests. Whenever a search call settles,
\* isLoading is false afterwards even if another search of the same hook is
\* still out, so the page shows neither the skeleton nor "Searching...", and
\* the settling response replaces songs whether or not a song is selected.
C11_LoadingIgnoresInFlight ==
    [][ \A r \in net \ net' : r.op = "search" =>
          /\ ~pageHook'.isLoading
          /\ ~StatusSearching'
          /\ GridView' # "skeleton"
          /\ (GridRendered' /\ Len(pageHook'.songs) > 0) => GridView' = "cards"
          /\ pageHook'.songs = SearchOutcome(lastSearch'.resp).songs ]_vars

\* a song was picked from the cards while a search was still out, and the
\* response of that search has emptied songs behind the open panel
C11_Witness ==
    /\ panel.mounted
    /\ mounts[panel.inst].after = 2
    /\ lastSearch.n = 2
    /\ InFlight("search") = {}
    /\ pageHook.songs = <<>>
    /\ ~pageHook.isLoading

\* a step of the panel: a lyrics or analyze request goes out or settles
PanelCallStep ==
    \E r \in (net' \ net) \cup (net \ net') : r.op \in {"lyrics", "analyze"}

\* the panel is left without a new search: its back arrow
PanelLeftStep ==
    /\ selectedSong # NoSong /\ selectedSong' = NoSong
    /\ searchCalls' = searchCalls

\* the page is back on the grid after the last selection, no search since
Returned ==
    /\ Len(mounts) > 0
    /\ selectedSong = NoSong
    /\ mounts[Len(mounts)].after = searchCalls

\* C12 as stated: the panel's calls leave the page's hook state and query
\* alone, so after selecting a song and going back the page shows exactly the
\* cards it showed before the selection.
C12_BackShowsSameList ==
    Returned => SongCards = mounts[Len(mounts)].shown

\* C12: selecting a song, every getLyrics and analyzeLyrics call of the panel
\* (going out or settling, success or failure) and the back action leave the
\* page's songs, isLoading, error and query unchanged and issue no search
\* request; after select and back the page shows the cards it showed before
\* the selection unless a search response settled in between.
C12_PanelHasOwnHookState ==
    /\ [][ (PanelCallStep \/ PanelLeftStep) =>
             /\ UNCHANGED <<query, pageHook, searchCalls>>
             /\ InFlight("search")' = InFlight("search") ]_vars
    /\ [](Returned /\ lastSearch.n = mounts[Len(mounts)].seen =>
             SongCards = mounts[Len(mounts)].shown)

\* back on the cards after a selection whose lyrics and analyze calls both
\* settled in the panel
C12_Witness ==
    /\ Returned
    /\ mounts[Len(mounts)].lyricsResp # NoResponse
    /\ mounts[Len(mounts)].analyzeResp # NoResponse
    /\ lastSearch.n = mounts[Len(mounts)].seen
    /\ Len(SongCards) > 0
    /\ SongCards = mounts[Len(mounts)].shown

====
